---- MODULE Spec2Model ----
(***************************************************************************)
(* Model of src/streamlit_app.py: a Streamlit script that is re-run on     *)
(* every auto-refresh tick.  Each run fetches the whole readings store,    *)
(* turns it into a table, normalises the time column, sorts, keeps the     *)
(* last MAX_DISPLAY_RECORDS rows, formats the time and evaluates three     *)
(* threshold alerts on the last row.                                       *)
(***************************************************************************)
EXTENDS Integers, Sequences, FiniteSets, Bags, TLC

VARIABLES store, resp, df, alerts, status, prevFailed

vars == <<store, resp, df, alerts, status, prevFailed>>

(***************************************************************************)
(* Configuration (lines 11-14).                                            *)
(***************************************************************************)
TEMP_THRESHOLD == 30
HUM_THRESHOLD == 75
LDR_THRESHOLD == 10
MAX_DISPLAY_RECORDS == 15

(***************************************************************************)
(* Bounds of the model.                                                    *)
(***************************************************************************)
\* records the sensor may add to the store on top of the initial backlog
MaxStore == 2
\* how far the initial backlog may exceed MAX_DISPLAY_RECORDS
MaxOver == 1

(***************************************************************************)
(* JSON values and table cells.  A JSON number is Num(n), a JSON string is *)
(* Str(chars) with chars a sequence of one-character strings, a missing    *)
(* table cell is NaN.                                                      *)
(***************************************************************************)
Num(n) == [num |-> n]
Str(s) == [str |-> s]
NaN == [nan |-> TRUE]
IsNum(v) == "num" \in DOMAIN v
IsStr(v) == "str" \in DOMAIN v
IsNaN(v) == "nan" \in DOMAIN v

Null == [null |-> TRUE]
Obj(recs) == [obj |-> recs]

DigitChars == <<"0", "1", "2", "3", "4", "5", "6", "7", "8", "9">>

IsDigit(c) == \E d \in 1..10 : DigitChars[d] = c

DigitValue(c) == (CHOOSE d \in 1..10 : DigitChars[d] = c) - 1

RECURSIVE ParseDigits(_)
ParseDigits(s) ==
    IF s = <<>> THEN 0
    ELSE 10 * ParseDigits(SubSeq(s, 1, Len(s) - 1)) + DigitValue(s[Len(s)])

RECURSIVE Decimal(_)
Decimal(n) ==
    IF n < 10 THEN <<DigitChars[n + 1]>>
    ELSE Decimal(n \div 10) \o <<DigitChars[(n % 10) + 1]>>

(***************************************************************************)
(* pd.DataFrame.from_dict(data, orient="index") (line 28) regroups the     *)
(* nested dict by column ({col: {id: value}}) and builds the table from    *)
(* that: the columns are the union of the records' keys, a record has a    *)
(* row when it carries at least one key, and a key a record lacks is NaN   *)
(* in its row.  Rows are kept here in the order of the JSON object; pandas *)
(* puts the rows of records that lack the first column after the others,   *)
(* which the sort of line 33 makes immaterial.                             *)
(***************************************************************************)
Columns(rows) == IF rows = <<>> THEN {} ELSE DOMAIN rows[1]

FromDict(data) ==
    LET cols == UNION {DOMAIN data[i] : i \in DOMAIN data}
        keyed == SelectSeq(data, LAMBDA rec : DOMAIN rec # {})
    IN  [i \in DOMAIN keyed |->
            [c \in cols |-> IF c \in DOMAIN keyed[i] THEN keyed[i][c] ELSE NaN]]

\* DataFrame.empty: no rows or no columns (lines 29, 43)
Empty(rows) == rows = <<>> \/ Columns(rows) = {}

(***************************************************************************)
(* Line 31: pd.to_numeric(errors="coerce"), .fillna(0), .astype(int).      *)
(***************************************************************************)
ToNumericCoerce(v) ==
    IF IsNum(v) THEN v
    ELSE IF IsStr(v) /\ v.str # <<>> /\ \A i \in DOMAIN v.str : IsDigit(v.str[i])
         THEN Num(ParseDigits(v.str))
         ELSE NaN

\* variant: an unparsable time is put at the end of the day
FillNaEndOfDay(v) == IF IsNaN(v) THEN Num(86400000) ELSE v

FillNa0(v) == IF IsNaN(v) THEN Num(0) ELSE v

NormalizeTime(rows) ==
    [i \in DOMAIN rows |-> [rows[i] EXCEPT !["time"] = FillNa0(ToNumericCoerce(@))]]

Key(row) == row["time"].num

(***************************************************************************)
(* Line 33: df.sort_values("time") with the default kind="quicksort",      *)
(* which orders by the key and gives no guarantee on the relative order of *)
(* rows with equal keys.  SortValues is the set of tables the call may     *)
(* leave: every arrangement of the rows that is ascending by key.          *)
(***************************************************************************)
MinKey(rows) ==
    CHOOSE m \in {Key(rows[i]) : i \in DOMAIN rows} :
        \A i \in DOMAIN rows : m <= Key(rows[i])

RemoveFirst(rows, r) ==
    LET p == CHOOSE i \in DOMAIN rows :
                 rows[i] = r /\ \A j \in 1..(i - 1) : rows[j] # r
    IN  SubSeq(rows, 1, p - 1) \o SubSeq(rows, p + 1, Len(rows))

\* variant: the sort is left out
SortValuesInputOrder(rows) == {rows}

RECURSIVE SortValues(_)
SortValues(rows) ==
    IF rows = <<>> THEN {<<>>}
    ELSE LET m == MinKey(rows)
             firsts == {rows[i] : i \in {j \in DOMAIN rows : Key(rows[j]) = m}}
         IN  UNION {UNION {{<<r>> \o rest : rest \in SortValues(others)} :
                              others \in {RemoveFirst(rows, r)}} :
                        r \in firsts}

\* variant: no truncation
TailKeepsAll(rows, n) == rows

\* variant: df.head(n)
HeadRows(rows, n) == IF Len(rows) <= n THEN rows ELSE SubSeq(rows, 1, n)

\* Line 34: df.tail(n)
TailRows(rows, n) ==
    IF Len(rows) <= n THEN rows ELSE SubSeq(rows, Len(rows) - n + 1, Len(rows))

(***************************************************************************)
(* Lines 36-38: f"{h:02d}:{m:02d}:{s:02d}".                                *)
(***************************************************************************)
Fmt02d(n) == LET d == Decimal(n) IN IF Len(d) < 2 THEN <<"0">> \o d ELSE d

\* variant: the minutes are not reduced modulo the hour
TimeStrTotalMinutes(ms) ==
    Fmt02d(ms \div 3600000) \o <<":">> \o
    Fmt02d(ms \div 60000) \o <<":">> \o
    Fmt02d((ms % 60000) \div 1000)

TimeStr(ms) ==
    Fmt02d(ms \div 3600000) \o <<":">> \o
    Fmt02d((ms % 3600000) \div 60000) \o <<":">> \o
    Fmt02d((ms % 60000) \div 1000)

AddTimeStr(rows) ==
    [i \in DOMAIN rows |->
        [c \in DOMAIN rows[i] \cup {"time_str"} |->
            IF c = "time_str" THEN Str(TimeStr(Key(rows[i]))) ELSE rows[i][c]]]

\* Line 27: resp.json() or {}
JsonOrEmpty(body) == IF "null" \in DOMAIN body THEN <<>> ELSE body.obj

\* variant: the time column is read without the df.empty guard of line 29
FetchDataNoEmptyGuard(body) ==
    LET table == FromDict(JsonOrEmpty(body))
    IN  IF "time" \notin Columns(table) THEN {[raised |-> TRUE, rows |-> <<>>]}
        ELSE UNION {{[raised |-> FALSE,
                      rows |-> AddTimeStr(TailRows(sorted, MAX_DISPLAY_RECORDS))] :
                        sorted \in SortValues(normal)} :
                    normal \in {NormalizeTime(table)}}

\* variant: to_numeric(errors="raise"): a time that is missing or not numeric raises
FetchDataStrict(body) ==
    LET table == FromDict(JsonOrEmpty(body))
    IN  IF Empty(table) THEN {[raised |-> FALSE, rows |-> table]}
        ELSE IF \/ "time" \notin Columns(table)
                \/ \E i \in DOMAIN table : IsNaN(ToNumericCoerce(table[i]["time"]))
        THEN {[raised |-> TRUE, rows |-> <<>>]}
        ELSE UNION {{[raised |-> FALSE,
                      rows |-> AddTimeStr(TailRows(sorted, MAX_DISPLAY_RECORDS))] :
                        sorted \in SortValues(normal)} :
                    normal \in {NormalizeTime(table)}}

(***************************************************************************)
(* fetch_data after a successful request (lines 27-39): the set of results *)
(* the call may give, each [raised, rows].                                 *)
(***************************************************************************)
FetchData(body) ==
    LET table == FromDict(JsonOrEmpty(body))
    IN  IF Empty(table) THEN {[raised |-> FALSE, rows |-> table]}
        ELSE IF "time" \notin Columns(table) THEN {[raised |-> TRUE, rows |-> <<>>]}
        ELSE UNION {{[raised |-> FALSE,
                      rows |-> AddTimeStr(TailRows(sorted, MAX_DISPLAY_RECORDS))] :
                        sorted \in SortValues(normal)} :
                    normal \in {NormalizeTime(table)}}

(***************************************************************************)
(* Lines 96-103: the alerts of the last row.  A comparison with NaN is     *)
(* false.                                                                  *)
(***************************************************************************)
\* variant: >= in place of >
AtOrAbove(v, t) == IsNum(v) /\ v.num >= t

Above(v, t) == IsNum(v) /\ v.num > t
Below(v, t) == IsNum(v) /\ v.num < t

Alert(kind, v) == [kind |-> kind, value |-> v]

EvalAlerts(latest) ==
    (IF Above(latest["temp"], TEMP_THRESHOLD)
        THEN <<Alert("TempHigh", latest["temp"])>> ELSE <<>>) \o
    (IF Above(latest["hum"], HUM_THRESHOLD)
        THEN <<Alert("HumHigh", latest["hum"])>> ELSE <<>>) \o
    (IF Below(latest["ldr"], LDR_THRESHOLD)
        THEN <<Alert("LightLow", latest["ldr"])>> ELSE <<>>)

\* Lines 85-87: build_chart reads df[field] for temp, hum and ldr
ChartFields == {"temp", "hum", "ldr"}

(***************************************************************************)
(* The remote store and the readings a sensor may add to it.               *)
(***************************************************************************)
Reading(t, temp, hum, ldr) ==
    [time |-> t, temp |-> Num(temp), hum |-> Num(hum), ldr |-> Num(ldr)]

\* a routine reading, i minutes and i seconds after boot
Routine(i) == Reading(Num(i * 61000), 25, 50, 50)

\* the store's initial content: k routine readings, newest first
Backlog(k) == [i \in 1..k |-> Routine(k - i + 1)]

BacklogSizes == {0} \cup (MAX_DISPLAY_RECORDS..(MAX_DISPLAY_RECORDS + MaxOver))

LateTime == 3725000

\* readings that differ in the time field only, all at the thresholds
TimeProbes ==
    {Reading(t, TEMP_THRESHOLD, HUM_THRESHOLD, LDR_THRESHOLD) :
        t \in {Num(0), Num(LateTime), Str(<<"n", "/", "a">>),
               Str(<<"6", "1", "0", "0", "0">>)}}
    \cup {[temp |-> Num(TEMP_THRESHOLD), hum |-> Num(HUM_THRESHOLD),
           ldr |-> Num(LDR_THRESHOLD)]}

\* readings at LateTime above the temperature threshold only, above the humidity
\* threshold only, past the humidity and light thresholds, and past all three
AlertProbes ==
    {Reading(Num(LateTime), TEMP_THRESHOLD + 1, HUM_THRESHOLD, LDR_THRESHOLD),
     Reading(Num(LateTime), TEMP_THRESHOLD, HUM_THRESHOLD + 1, LDR_THRESHOLD),
     Reading(Num(LateTime), TEMP_THRESHOLD, HUM_THRESHOLD + 1, LDR_THRESHOLD - 1),
     Reading(Num(LateTime), TEMP_THRESHOLD + 1, HUM_THRESHOLD + 1, LDR_THRESHOLD - 1)}

\* a record without temp and a record that is an empty object
FieldProbes ==
    {[time |-> Num(LateTime), hum |-> Num(HUM_THRESHOLD + 1),
      ldr |-> Num(LDR_THRESHOLD - 1)],
     <<>>}

RawRecords == TimeProbes \cup AlertProbes \cup FieldProbes

Pushed(s) == Cardinality({i \in DOMAIN s : s[i] \in RawRecords})

FetchFailures == {"HTTPError", "ConnectionError"}

\* what GET /readings.json answers for a store: null for an empty one
Bodies(s) == IF s = <<>> THEN {Null, Obj(<<>>)} ELSE {Obj(s)}

Init ==
    /\ store \in {Backlog(k) : k \in BacklogSizes}
    /\ resp = [kind |-> "none"]
    /\ df = <<>>
    /\ alerts = <<>>
    /\ status = "NotRun"
    /\ prevFailed = FALSE

\* the sensor writes one more record to the store
Push(r) ==
    /\ Pushed(store) < MaxStore
    /\ store' = Append(store, r)
    /\ UNCHANGED <<resp, df, alerts, status, prevFailed>>

(***************************************************************************)
(* One run of the script (one refresh tick).  Every run starts from an     *)
(* empty namespace: df and alerts exist only once the run assigns them.    *)
(***************************************************************************)

\* variant: a failed fetch leaves the table and alerts of the run before
RunFetchFailsKeepsLast(kind) ==
    /\ resp' = [kind |-> kind]
    /\ status' = "FetchFailed"
    /\ prevFailed' = (status = "FetchFailed")
    /\ UNCHANGED <<store, df, alerts>>

\* lines 25-26: requests.get raises, or raise_for_status raises
RunFetchFails(kind) ==
    /\ resp' = [kind |-> kind]
    /\ df' = <<>>
    /\ alerts' = <<>>
    /\ status' = "FetchFailed"
    /\ prevFailed' = (status = "FetchFailed")
    /\ UNCHANGED store

\* lines 42-108 after a fetch_data that returned or raised
Render(got) ==
    IF got.raised
    THEN [df |-> <<>>, alerts |-> <<>>, status |-> "IngestFailed"]
    ELSE IF Empty(got.rows)
    THEN [df |-> got.rows, alerts |-> <<>>, status |-> "NoData"]
    ELSE IF ~(ChartFields \subseteq Columns(got.rows))
    THEN [df |-> got.rows, alerts |-> <<>>, status |-> "RenderFailed"]
    ELSE [df |-> got.rows, alerts |-> EvalAlerts(got.rows[Len(got.rows)]),
          status |-> "Dashboard"]

Run(body) ==
    /\ resp' = [kind |-> "ok", body |-> body]
    /\ \E got \in FetchData(body) :
          LET out == Render(got)
          IN  /\ df' = out.df
              /\ alerts' = out.alerts
              /\ status' = out.status
    /\ prevFailed' = (status = "FetchFailed")
    /\ UNCHANGED store

Next ==
    \/ \E r \in RawRecords : Push(r)
    \/ \E kind \in FetchFailures : RunFetchFails(kind)
    \/ \E body \in Bodies(store) : Run(body)

Spec == Init /\ [][Next]_vars

(***************************************************************************)
(* Vocabulary of the properties, stated on the response of the last run    *)
(* and on what that run left, without the operators of the pipeline.       *)
(***************************************************************************)
Fetched == resp.kind = "ok"

\* the records of the last response, in the order of the JSON object
Raw == IF Fetched /\ "obj" \in DOMAIN resp.body THEN resp.body.obj ELSE <<>>

\* fetch_data returned a table to the script
Returned == status \in {"NoData", "RenderFailed", "Dashboard"}

HasSeries == Returned /\ df # <<>> /\ "time" \in DOMAIN df[1]

Min(a, b) == IF a < b THEN a ELSE b
Max(a, b) == IF a < b THEN b ELSE a

Cell(f, c) == IF c \in DOMAIN f THEN f[c] ELSE NaN

NumericText(v) ==
    IsStr(v) /\ v.str # <<>> /\ \A i \in DOMAIN v.str : v.str[i] \in
        {"0", "1", "2", "3", "4", "5", "6", "7", "8", "9"}

\* a time value that numeric coercion rejects
Unparsable(rec) ==
    "time" \in DOMAIN rec /\ IsStr(rec["time"]) /\ ~NumericText(rec["time"])

LacksField(rec) == \E c \in {"time", "temp", "hum", "ldr"} : c \notin DOMAIN rec

Valid(rec) == ~LacksField(rec) /\ ~Unparsable(rec)

\* the normalized time key the specification gives a record
TimeKey(rec) ==
    IF "time" \in DOMAIN rec /\ IsNum(rec["time"]) THEN rec["time"].num
    ELSE IF "time" \in DOMAIN rec /\ NumericText(rec["time"])
         THEN ParseDigits(rec["time"].str)
         ELSE 0

\* a record or a row as key and measurements
Sample(f, k) == <<k, Cell(f, "temp"), Cell(f, "hum"), Cell(f, "ldr")>>

\* the records that carry at least one field: an empty object gets no row
Entries == SelectSeq(Raw, LAMBDA rec : DOMAIN rec # {})

RawSamples == [i \in DOMAIN Entries |-> Sample(Entries[i], TimeKey(Entries[i]))]
Series == [i \in DOMAIN df |-> Sample(df[i], df[i]["time"].num)]

SeqToBag(s) ==
    [x \in {s[i] : i \in DOMAIN s} |-> Cardinality({i \in DOMAIN s : s[i] = x})]

Count(s, k) == Cardinality({i \in DOMAIN s : s[i][1] = k})

\* C1: a snapshot of n valid records gives a series of min(n, MAX_DISPLAY_RECORDS)
\* records
LengthIsMin ==
    (Fetched /\ \A i \in DOMAIN Raw : Valid(Raw[i]))
        => /\ status \in {"NoData", "Dashboard"}
           /\ Len(df) = Min(Len(Raw), MAX_DISPLAY_RECORDS)

LengthIsMinWitness ==
    /\ status = "Dashboard"
    /\ \A i \in DOMAIN Raw : Valid(Raw[i])
    /\ Len(Raw) > MAX_DISPLAY_RECORDS
    /\ Len(df) = MAX_DISPLAY_RECORDS

\* C2: the returned series is ascending by the time key: no adjacent pair has
\* time[i] > time[i+1]
SortedByTime ==
    HasSeries => \A i \in 1..(Len(df) - 1) : ~(df[i]["time"].num > df[i + 1]["time"].num)

SortedByTimeWitness ==
    /\ status = "Dashboard"
    /\ Len(df) >= 3
    /\ \E i \in 1..(Len(Raw) - 1) : TimeKey(Raw[i]) > TimeKey(Raw[i + 1])
    /\ \E i \in 1..(Len(df) - 1) : df[i]["time"].num < df[i + 1]["time"].num

\* C3: with more than MAX_DISPLAY_RECORDS records only the earliest are dropped:
\* the series is made of records of the snapshot, every retained key is >= every
\* dropped key, and the last row, the one the alerts are evaluated on, has the
\* greatest key of the snapshot
DropsOnlyEarliest ==
    (HasSeries /\ Len(Entries) > MAX_DISPLAY_RECORDS)
        => /\ SeqToBag(Series) \sqsubseteq SeqToBag(RawSamples)
           /\ Len(df) = MAX_DISPLAY_RECORDS
           /\ LET dropped == SeqToBag(RawSamples) (-) SeqToBag(Series)
              IN  \A d \in BagToSet(dropped) : \A i \in DOMAIN Series :
                      Series[i][1] >= d[1]
           /\ \A i \in DOMAIN Entries : TimeKey(Entries[i]) <= Series[Len(Series)][1]

DropsOnlyEarliestWitness ==
    /\ status = "Dashboard"
    /\ Len(Raw) = MAX_DISPLAY_RECORDS + 2
    /\ Entries = Raw
    /\ TimeKey(Raw[Len(Raw)]) < df[1]["time"].num
    /\ TimeKey(Raw[Len(Raw) - 1]) = df[Len(df)]["time"].num

Last == df[Len(df)]

AlertKinds == [i \in DOMAIN alerts |-> alerts[i].kind]

Emitted(kind) == \E i \in DOMAIN alerts : alerts[i].kind = kind

Rank(kind) ==
    CASE kind = "TempHigh" -> 1 [] kind = "HumHigh" -> 2 [] kind = "LightLow" -> 3

Measured(kind) ==
    CASE kind = "TempHigh" -> "temp" [] kind = "HumHigh" -> "hum"
      [] kind = "LightLow" -> "ldr"

\* C4: the alerts are decided by the last record alone, by three independent strict
\* comparisons (temp > 30, hum > 75, ldr < 10), and appear in the order Temp, Hum,
\* Light
AlertsOfLastRecord ==
    status = "Dashboard"
        => /\ Emitted("TempHigh") <=> (IsNum(Last["temp"]) /\ Last["temp"].num > 30)
           /\ Emitted("HumHigh") <=> (IsNum(Last["hum"]) /\ Last["hum"].num > 75)
           /\ Emitted("LightLow") <=> (IsNum(Last["ldr"]) /\ Last["ldr"].num < 10)
           /\ \A i, j \in DOMAIN alerts : i < j => Rank(alerts[i].kind) < Rank(alerts[j].kind)
           /\ \A i \in DOMAIN alerts : alerts[i].value = Last[Measured(alerts[i].kind)]

\* the last record sits at the temperature threshold and raises the two other
\* alerts, while an earlier record of the series is above the temperature threshold
AlertsOfLastRecordWitness ==
    /\ status = "Dashboard"
    /\ AlertKinds = <<"HumHigh", "LightLow">>
    /\ Last["temp"] = Num(30)
    /\ \E i \in 1..(Len(df) - 1) : IsNum(df[i]["temp"]) /\ df[i]["temp"].num > 30

RECURSIVE Numeral(_)
Numeral(s) ==
    IF s = <<>> THEN 0
    ELSE 10 * Numeral(SubSeq(s, 1, Len(s) - 1))
         + (CHOOSE d \in 0..9 : DigitChars[d + 1] = s[Len(s)])

TwoDigits(s) ==
    /\ Len(s) >= 2
    /\ \A i \in DOMAIN s : s[i] \in {DigitChars[d] : d \in 1..10}
    /\ Len(s) > 2 => s[1] # "0"

\* text is HH:MM:SS for ms: three zero-padded decimal fields that count the whole
\* hours, the whole minutes of the hour and the whole seconds of the minute
IsClock(text, ms) ==
    LET colons == {i \in DOMAIN text : text[i] = ":"}
    IN  /\ Cardinality(colons) = 2
        /\ LET c1 == CHOOSE i \in colons : \A j \in colons : i <= j
               c2 == CHOOSE i \in colons : \A j \in colons : j <= i
               hh == SubSeq(text, 1, c1 - 1)
               mm == SubSeq(text, c1 + 1, c2 - 1)
               ss == SubSeq(text, c2 + 1, Len(text))
           IN  /\ TwoDigits(hh) /\ TwoDigits(mm) /\ TwoDigits(ss)
               /\ Numeral(mm) < 60 /\ Numeral(ss) < 60
               /\ LET whole == Numeral(hh) * 3600000 + Numeral(mm) * 60000
                               + Numeral(ss) * 1000
                  IN  whole <= ms /\ ms < whole + 1000

\* C5: time_display of a record is HH:MM:SS of its millisecond key, each field
\* zero-padded to two digits; 3725000 gives "01:02:05"
TimeDisplayIsClock ==
    HasSeries
        => \A i \in DOMAIN df :
              /\ IsStr(df[i]["time_str"])
              /\ IsClock(df[i]["time_str"].str, df[i]["time"].num)
              /\ df[i]["time"].num = 3725000
                    => df[i]["time_str"].str = <<"0", "1", ":", "0", "2", ":", "0", "5">>

TimeDisplayIsClockWitness ==
    /\ status = "Dashboard"
    /\ \E i \in DOMAIN df : df[i]["time"].num = 3725000
    /\ \E i \in DOMAIN df :
          df[i]["time_str"].str = <<"0", "0", ":", "1", "5", ":", "1", "5">>

EmptyBody == Fetched /\ resp.body \in {Null, Obj(<<>>)}

\* C6: an empty object or a null body is not an error: the series is empty, the run
\* shows the "no data" state and evaluates no alert
EmptyStoreIsNoData ==
    EmptyBody => status = "NoData" /\ df = <<>> /\ alerts = <<>>

EmptyStoreIsNoDataWitness ==
    Fetched /\ resp.body = Null /\ status = "NoData" /\ prevFailed

Defective(rec) == LacksField(rec) \/ Unparsable(rec)

OutcomeOfResponse ==
    /\ resp.kind \in FetchFailures
          => status = "FetchFailed" /\ df = <<>> /\ alerts = <<>>
    /\ Fetched => status \in {"IngestFailed", "NoData", "RenderFailed", "Dashboard"}
    /\ (Returned /\ ~HasSeries) => alerts = <<>> /\ df = <<>> /\ Entries = <<>>
    /\ HasSeries
          => /\ SeqToBag(Series) \sqsubseteq SeqToBag(RawSamples)
             /\ Len(df) = Min(Len(Entries), MAX_DISPLAY_RECORDS)
             /\ \A d \in BagToSet(SeqToBag(RawSamples) (-) SeqToBag(Series)) :
                   \A i \in DOMAIN Series : Series[i][1] >= d[1]
             /\ \A i \in 1..(Len(df) - 1) : Series[i][1] <= Series[i + 1][1]
    /\ status # "Dashboard" => alerts = <<>>
    /\ status = "Dashboard"
          => AlertKinds = SelectSeq(<<"TempHigh", "HumHigh", "LightLow">>,
                 LAMBDA k : IF k = "LightLow"
                            THEN IsNum(Last["ldr"]) /\ Last["ldr"].num < 10
                            ELSE IF k = "HumHigh"
                            THEN IsNum(Last["hum"]) /\ Last["hum"].num > 75
                            ELSE IsNum(Last["temp"]) /\ Last["temp"].num > 30)

\* C8: every tick's outcome is that of the response of that tick: a failed fetch
\* leaves an error with no series and no alerts, a later tick can always run, and a
\* successful tick shows the series and alerts of its own response
TickDependsOnResponseOnly ==
    status # "NotRun"
        => /\ OutcomeOfResponse
           /\ status = "FetchFailed"
                 => /\ ENABLED (\E body \in Bodies(store) : Run(body))
                    /\ ENABLED (\E kind \in FetchFailures : RunFetchFails(kind))

\* a tick that follows a failed one shows the series and alerts of its response
TickDependsOnResponseOnlyWitness ==
    /\ prevFailed
    /\ status = "Dashboard"
    /\ Len(df) = MAX_DISPLAY_RECORDS
    /\ alerts # <<>>

RECURSIVE InsertByKey(_, _)
InsertByKey(sorted, x) ==
    IF sorted = <<>> THEN <<x>>
    ELSE IF sorted[Len(sorted)][1] <= x[1] THEN Append(sorted, x)
    ELSE Append(InsertByKey(SubSeq(sorted, 1, Len(sorted) - 1), x), sorted[Len(sorted)])

RECURSIVE StableByKey(_)
StableByKey(s) ==
    IF s = <<>> THEN <<>>
    ELSE InsertByKey(StableByKey(SubSeq(s, 1, Len(s) - 1)), s[Len(s)])

LastOf(s, n) == IF Len(s) <= n THEN s ELSE SubSeq(s, Len(s) - n + 1, Len(s))

\* C9: the sort is stable: records with equal time keys keep the relative order of
\* the raw input, so the series is the stable sort of the input cut to its last
\* MAX_DISPLAY_RECORDS records
TiesKeepInputOrder ==
    HasSeries => Series = LastOf(StableByKey(RawSamples), MAX_DISPLAY_RECORDS)

\* C10: an unparsable time does not reject the record: its key is 0, it is displayed
\* as 00:00:00 ahead of every record with a positive key, the records with key 0 are
\* dropped before any other when the store holds more than MAX_DISPLAY_RECORDS, and
\* the other records keep their keys
UnparsableTimeIsZero ==
    (Fetched /\ \E i \in DOMAIN Raw : Unparsable(Raw[i]))
        => /\ HasSeries
           /\ Len(df) = Min(Len(Entries), MAX_DISPLAY_RECORDS)
           /\ SeqToBag(Series) \sqsubseteq SeqToBag(RawSamples)
           /\ Count(Series, 0)
                 = Max(0, Count(RawSamples, 0)
                             - Max(0, Len(Entries) - MAX_DISPLAY_RECORDS))
           /\ \A i \in DOMAIN df :
                 df[i]["time"].num = 0
                    => /\ df[i]["time_str"].str = <<"0", "0", ":", "0", "0", ":", "0", "0">>
                       /\ \A j \in DOMAIN df : df[j]["time"].num > 0 => i < j

\* a record with an unparsable time, last in a store of more than
\* MAX_DISPLAY_RECORDS records, is dropped
UnparsableTimeIsZeroWitness ==
    /\ status = "Dashboard"
    /\ Len(Raw) > MAX_DISPLAY_RECORDS
    /\ Entries = Raw
    /\ Unparsable(Raw[Len(Raw)])
    /\ \A i \in DOMAIN df : df[i]["time"].num > 0
====
